---- MODULE Spec2Model ----
(***************************************************************************)
(* Model of the cryptocurrency price tracker view (frontend/src/App.tsx).  *)
(*                                                                         *)
(* The state is the component's useState cells, the requests in flight,    *)
(* the position of initializeApp, the interval timer and the lodash        *)
(* debounce timer.  Every event handler, promise continuation and timer    *)
(* callback is one action.  React ignores state updates of an unmounted    *)
(* component, so every setter is guarded by `mounted`.                     *)
(*                                                                         *)
(* Time: each of the two timers has its own clock action (PollTick for     *)
(* the setInterval, Tick for the debounce setTimeout).  Their relative     *)
(* phase is left unconstrained, which includes every schedule the single   *)
(* browser clock can produce.                                              *)
(***************************************************************************)
EXTENDS Integers, Sequences, FiniteSets, TLC

VARIABLES
    cryptocurrencies,    \* useState<Cryptocurrency[]>([])
    isSearchDialogOpen,  \* useState(false)
    searchTerm,          \* useState('')
    searchResults,       \* useState<SearchResult[]>([])
    error,               \* useState('')
    isLoading,           \* useState(true)
    anchorEl,            \* useState(null): TRUE when an element is set
    mounted,             \* the component is mounted
    pollRemaining,       \* ms until the setInterval callback is due, -1 when cleared
    probe,               \* initializeApp: "inflight", or how the ping ended: "ok" | "bad" | "failed"
    fetches,             \* list requests in flight, in issue order
    searches,            \* search requests in flight, in issue order
    adds,                \* add requests in flight, in issue order
    debTimer,            \* lodash debounce: ms left on its setTimeout, -1 when none
    debSince,            \* lodash debounce: ms since lastCallTime, capped at the wait
    debArgs,             \* lodash debounce: lastArgs, <<query>> or NoArgs
    last,                \* history: the event that produced this state, with its inputs
    hist                 \* history: the current burst of keystrokes and its search request,
                         \* and whether a selection has cleared the search since the last keystroke

vars == <<cryptocurrencies, isSearchDialogOpen, searchTerm, searchResults, error,
          isLoading, anchorEl, mounted, pollRemaining, probe, fetches, searches,
          adds, debTimer, debSince, debArgs, last, hist>>

uiVars == <<cryptocurrencies, isSearchDialogOpen, searchTerm, searchResults, error,
            isLoading, anchorEl>>
debVars == <<debTimer, debSince, debArgs>>

----------------------------------------------------------------------------
(* Bounds of the model *)

MaxList == 3          \* longest list response body
MaxSearchBody == 12   \* longest search response body
MaxInFlight == 2      \* probe, list and add requests in flight together
MaxSearches == 1      \* search requests in flight together
PollSteps == 2        \* clock steps per interval period
DebounceSteps == 3    \* clock steps per debounce wait

(* Program constants *)

PollMs == 60000       \* setInterval(fetchCryptocurrencies, 60000)
DebounceMs == 300     \* debounce(..., 300)
MinQueryLen == 2      \* query.length < 2
SearchLimit == 10     \* .slice(0, 10)

PollTickMs == PollMs \div PollSteps
TickMs == DebounceMs \div DebounceSteps

----------------------------------------------------------------------------
(* Strings are sequences of UTF-16 code units (integers 0..65535), as in
   JavaScript, so that length, toLowerCase and includes are computed and not
   assumed: "BTC" is <<66, 84, 67>>. *)

\* The lower-case mappings of the Unicode Character Database (17.0) that give
\* one code point: <<first, last, step, delta>> maps each code point
\* first, first + step, ..., last to itself plus delta.
LowerRuns == <<
    <<65, 90, 1, 32>>, <<192, 214, 1, 32>>, <<216, 222, 1, 32>>, <<256, 302, 2, 1>>,
    <<306, 310, 2, 1>>, <<313, 327, 2, 1>>, <<330, 374, 2, 1>>, <<376, 376, 1, -121>>,
    <<377, 381, 2, 1>>, <<385, 385, 1, 210>>, <<386, 388, 2, 1>>, <<390, 390, 1, 206>>,
    <<391, 391, 1, 1>>, <<393, 394, 1, 205>>, <<395, 395, 1, 1>>, <<398, 398, 1, 79>>,
    <<399, 399, 1, 202>>, <<400, 400, 1, 203>>, <<401, 401, 1, 1>>, <<403, 403, 1, 205>>,
    <<404, 404, 1, 207>>, <<406, 406, 1, 211>>, <<407, 407, 1, 209>>, <<408, 408, 1, 1>>,
    <<412, 412, 1, 211>>, <<413, 413, 1, 213>>, <<415, 415, 1, 214>>, <<416, 420, 2, 1>>,
    <<422, 422, 1, 218>>, <<423, 423, 1, 1>>, <<425, 425, 1, 218>>, <<428, 428, 1, 1>>,
    <<430, 430, 1, 218>>, <<431, 431, 1, 1>>, <<433, 434, 1, 217>>, <<435, 437, 2, 1>>,
    <<439, 439, 1, 219>>, <<440, 440, 1, 1>>, <<444, 444, 1, 1>>, <<452, 452, 1, 2>>,
    <<453, 453, 1, 1>>, <<455, 455, 1, 2>>, <<456, 456, 1, 1>>, <<458, 458, 1, 2>>,
    <<459, 475, 2, 1>>, <<478, 494, 2, 1>>, <<497, 497, 1, 2>>, <<498, 500, 2, 1>>,
    <<502, 502, 1, -97>>, <<503, 503, 1, -56>>, <<504, 542, 2, 1>>, <<544, 544, 1, -130>>,
    <<546, 562, 2, 1>>, <<570, 570, 1, 10795>>, <<571, 571, 1, 1>>, <<573, 573, 1, -163>>,
    <<574, 574, 1, 10792>>, <<577, 577, 1, 1>>, <<579, 579, 1, -195>>, <<580, 580, 1, 69>>,
    <<581, 581, 1, 71>>, <<582, 590, 2, 1>>, <<880, 882, 2, 1>>, <<886, 886, 1, 1>>,
    <<895, 895, 1, 116>>, <<902, 902, 1, 38>>, <<904, 906, 1, 37>>, <<908, 908, 1, 64>>,
    <<910, 911, 1, 63>>, <<913, 929, 1, 32>>, <<931, 939, 1, 32>>, <<975, 975, 1, 8>>,
    <<984, 1006, 2, 1>>, <<1012, 1012, 1, -60>>, <<1015, 1015, 1, 1>>, <<1017, 1017, 1, -7>>,
    <<1018, 1018, 1, 1>>, <<1021, 1023, 1, -130>>, <<1024, 1039, 1, 80>>, <<1040, 1071, 1, 32>>,
    <<1120, 1152, 2, 1>>, <<1162, 1214, 2, 1>>, <<1216, 1216, 1, 15>>, <<1217, 1229, 2, 1>>,
    <<1232, 1326, 2, 1>>, <<1329, 1366, 1, 48>>, <<4256, 4293, 1, 7264>>, <<4295, 4295, 1, 7264>>,
    <<4301, 4301, 1, 7264>>, <<5024, 5103, 1, 38864>>, <<5104, 5109, 1, 8>>, <<7305, 7305, 1, 1>>,
    <<7312, 7354, 1, -3008>>, <<7357, 7359, 1, -3008>>, <<7680, 7828, 2, 1>>, <<7838, 7838, 1, -7615>>,
    <<7840, 7934, 2, 1>>, <<7944, 7951, 1, -8>>, <<7960, 7965, 1, -8>>, <<7976, 7983, 1, -8>>,
    <<7992, 7999, 1, -8>>, <<8008, 8013, 1, -8>>, <<8025, 8031, 2, -8>>, <<8040, 8047, 1, -8>>,
    <<8072, 8079, 1, -8>>, <<8088, 8095, 1, -8>>, <<8104, 8111, 1, -8>>, <<8120, 8121, 1, -8>>,
    <<8122, 8123, 1, -74>>, <<8124, 8124, 1, -9>>, <<8136, 8139, 1, -86>>, <<8140, 8140, 1, -9>>,
    <<8152, 8153, 1, -8>>, <<8154, 8155, 1, -100>>, <<8168, 8169, 1, -8>>, <<8170, 8171, 1, -112>>,
    <<8172, 8172, 1, -7>>, <<8184, 8185, 1, -128>>, <<8186, 8187, 1, -126>>, <<8188, 8188, 1, -9>>,
    <<8486, 8486, 1, -7517>>, <<8490, 8490, 1, -8383>>, <<8491, 8491, 1, -8262>>, <<8498, 8498, 1, 28>>,
    <<8544, 8559, 1, 16>>, <<8579, 8579, 1, 1>>, <<9398, 9423, 1, 26>>, <<11264, 11311, 1, 48>>,
    <<11360, 11360, 1, 1>>, <<11362, 11362, 1, -10743>>, <<11363, 11363, 1, -3814>>, <<11364, 11364, 1, -10727>>,
    <<11367, 11371, 2, 1>>, <<11373, 11373, 1, -10780>>, <<11374, 11374, 1, -10749>>, <<11375, 11375, 1, -10783>>,
    <<11376, 11376, 1, -10782>>, <<11378, 11378, 1, 1>>, <<11381, 11381, 1, 1>>, <<11390, 11391, 1, -10815>>,
    <<11392, 11490, 2, 1>>, <<11499, 11501, 2, 1>>, <<11506, 11506, 1, 1>>, <<42560, 42604, 2, 1>>,
    <<42624, 42650, 2, 1>>, <<42786, 42798, 2, 1>>, <<42802, 42862, 2, 1>>, <<42873, 42875, 2, 1>>,
    <<42877, 42877, 1, -35332>>, <<42878, 42886, 2, 1>>, <<42891, 42891, 1, 1>>, <<42893, 42893, 1, -42280>>,
    <<42896, 42898, 2, 1>>, <<42902, 42920, 2, 1>>, <<42922, 42922, 1, -42308>>, <<42923, 42923, 1, -42319>>,
    <<42924, 42924, 1, -42315>>, <<42925, 42925, 1, -42305>>, <<42926, 42926, 1, -42308>>, <<42928, 42928, 1, -42258>>,
    <<42929, 42929, 1, -42282>>, <<42930, 42930, 1, -42261>>, <<42931, 42931, 1, 928>>, <<42932, 42946, 2, 1>>,
    <<42948, 42948, 1, -48>>, <<42949, 42949, 1, -42307>>, <<42950, 42950, 1, -35384>>, <<42951, 42953, 2, 1>>,
    <<42955, 42955, 1, -42343>>, <<42956, 42970, 2, 1>>, <<42972, 42972, 1, -42561>>, <<42997, 42997, 1, 1>>,
    <<65313, 65338, 1, 32>>, <<66560, 66599, 1, 40>>, <<66736, 66771, 1, 40>>, <<66928, 66938, 1, 39>>,
    <<66940, 66954, 1, 39>>, <<66956, 66962, 1, 39>>, <<66964, 66965, 1, 39>>, <<68736, 68786, 1, 64>>,
    <<68944, 68965, 1, 32>>, <<71840, 71871, 1, 32>>, <<93760, 93791, 1, 32>>, <<93856, 93880, 1, 27>>,
    <<125184, 125217, 1, 34>>
>>

\* The code points that are cased letters and not case-ignorable, as ranges
\* <<first, last>>.
CasedRanges == <<
    <<65, 90>>, <<97, 122>>, <<170, 170>>, <<181, 181>>, <<186, 186>>, <<192, 214>>,
    <<216, 246>>, <<248, 442>>, <<444, 447>>, <<452, 659>>, <<662, 687>>, <<880, 883>>,
    <<886, 887>>, <<891, 893>>, <<895, 895>>, <<902, 902>>, <<904, 906>>, <<908, 908>>,
    <<910, 929>>, <<931, 1013>>, <<1015, 1153>>, <<1162, 1327>>, <<1329, 1366>>, <<1376, 1416>>,
    <<4256, 4293>>, <<4295, 4295>>, <<4301, 4301>>, <<4304, 4346>>, <<4349, 4351>>, <<5024, 5109>>,
    <<5112, 5117>>, <<7296, 7306>>, <<7312, 7354>>, <<7357, 7359>>, <<7424, 7467>>, <<7531, 7543>>,
    <<7545, 7578>>, <<7680, 7957>>, <<7960, 7965>>, <<7968, 8005>>, <<8008, 8013>>, <<8016, 8023>>,
    <<8025, 8025>>, <<8027, 8027>>, <<8029, 8029>>, <<8031, 8061>>, <<8064, 8116>>, <<8118, 8124>>,
    <<8126, 8126>>, <<8130, 8132>>, <<8134, 8140>>, <<8144, 8147>>, <<8150, 8155>>, <<8160, 8172>>,
    <<8178, 8180>>, <<8182, 8188>>, <<8450, 8450>>, <<8455, 8455>>, <<8458, 8467>>, <<8469, 8469>>,
    <<8473, 8477>>, <<8484, 8484>>, <<8486, 8486>>, <<8488, 8488>>, <<8490, 8493>>, <<8495, 8500>>,
    <<8505, 8505>>, <<8508, 8511>>, <<8517, 8521>>, <<8526, 8526>>, <<8544, 8575>>, <<8579, 8580>>,
    <<9398, 9449>>, <<11264, 11387>>, <<11390, 11492>>, <<11499, 11502>>, <<11506, 11507>>, <<11520, 11557>>,
    <<11559, 11559>>, <<11565, 11565>>, <<42560, 42605>>, <<42624, 42651>>, <<42786, 42863>>, <<42865, 42887>>,
    <<42891, 42894>>, <<42896, 42972>>, <<42997, 42998>>, <<43002, 43002>>, <<43824, 43866>>, <<43872, 43880>>,
    <<43888, 43967>>, <<64256, 64262>>, <<64275, 64279>>, <<65313, 65338>>, <<65345, 65370>>, <<66560, 66639>>,
    <<66736, 66771>>, <<66776, 66811>>, <<66928, 66938>>, <<66940, 66954>>, <<66956, 66962>>, <<66964, 66965>>,
    <<66967, 66977>>, <<66979, 66993>>, <<66995, 67001>>, <<67003, 67004>>, <<68736, 68786>>, <<68800, 68850>>,
    <<68944, 68965>>, <<68976, 68997>>, <<71840, 71903>>, <<93760, 93823>>, <<93856, 93880>>, <<93883, 93907>>,
    <<119808, 119892>>, <<119894, 119964>>, <<119966, 119967>>, <<119970, 119970>>, <<119973, 119974>>, <<119977, 119980>>,
    <<119982, 119993>>, <<119995, 119995>>, <<119997, 120003>>, <<120005, 120069>>, <<120071, 120074>>, <<120077, 120084>>,
    <<120086, 120092>>, <<120094, 120121>>, <<120123, 120126>>, <<120128, 120132>>, <<120134, 120134>>, <<120138, 120144>>,
    <<120146, 120485>>, <<120488, 120512>>, <<120514, 120538>>, <<120540, 120570>>, <<120572, 120596>>, <<120598, 120628>>,
    <<120630, 120654>>, <<120656, 120686>>, <<120688, 120712>>, <<120714, 120744>>, <<120746, 120770>>, <<120772, 120779>>,
    <<122624, 122633>>, <<122635, 122654>>, <<122661, 122666>>, <<125184, 125251>>, <<127280, 127305>>, <<127312, 127337>>,
    <<127344, 127369>>
>>

\* The case-ignorable code points, as ranges <<first, last>>.
CaseIgnorableRanges == <<
    <<39, 39>>, <<46, 46>>, <<58, 58>>, <<94, 94>>, <<96, 96>>, <<168, 168>>,
    <<173, 173>>, <<175, 175>>, <<180, 180>>, <<183, 184>>, <<688, 879>>, <<884, 885>>,
    <<890, 890>>, <<900, 901>>, <<903, 903>>, <<1155, 1161>>, <<1369, 1369>>, <<1375, 1375>>,
    <<1425, 1469>>, <<1471, 1471>>, <<1473, 1474>>, <<1476, 1477>>, <<1479, 1479>>, <<1524, 1524>>,
    <<1536, 1541>>, <<1552, 1562>>, <<1564, 1564>>, <<1600, 1600>>, <<1611, 1631>>, <<1648, 1648>>,
    <<1750, 1757>>, <<1759, 1768>>, <<1770, 1773>>, <<1807, 1807>>, <<1809, 1809>>, <<1840, 1866>>,
    <<1958, 1968>>, <<2027, 2037>>, <<2042, 2042>>, <<2045, 2045>>, <<2070, 2093>>, <<2137, 2139>>,
    <<2184, 2184>>, <<2192, 2193>>, <<2199, 2207>>, <<2249, 2306>>, <<2362, 2362>>, <<2364, 2364>>,
    <<2369, 2376>>, <<2381, 2381>>, <<2385, 2391>>, <<2402, 2403>>, <<2417, 2417>>, <<2433, 2433>>,
    <<2492, 2492>>, <<2497, 2500>>, <<2509, 2509>>, <<2530, 2531>>, <<2558, 2558>>, <<2561, 2562>>,
    <<2620, 2620>>, <<2625, 2626>>, <<2631, 2632>>, <<2635, 2637>>, <<2641, 2641>>, <<2672, 2673>>,
    <<2677, 2677>>, <<2689, 2690>>, <<2748, 2748>>, <<2753, 2757>>, <<2759, 2760>>, <<2765, 2765>>,
    <<2786, 2787>>, <<2810, 2815>>, <<2817, 2817>>, <<2876, 2876>>, <<2879, 2879>>, <<2881, 2884>>,
    <<2893, 2893>>, <<2901, 2902>>, <<2914, 2915>>, <<2946, 2946>>, <<3008, 3008>>, <<3021, 3021>>,
    <<3072, 3072>>, <<3076, 3076>>, <<3132, 3132>>, <<3134, 3136>>, <<3142, 3144>>, <<3146, 3149>>,
    <<3157, 3158>>, <<3170, 3171>>, <<3201, 3201>>, <<3260, 3260>>, <<3263, 3263>>, <<3270, 3270>>,
    <<3276, 3277>>, <<3298, 3299>>, <<3328, 3329>>, <<3387, 3388>>, <<3393, 3396>>, <<3405, 3405>>,
    <<3426, 3427>>, <<3457, 3457>>, <<3530, 3530>>, <<3538, 3540>>, <<3542, 3542>>, <<3633, 3633>>,
    <<3636, 3642>>, <<3654, 3662>>, <<3761, 3761>>, <<3764, 3772>>, <<3782, 3782>>, <<3784, 3790>>,
    <<3864, 3865>>, <<3893, 3893>>, <<3895, 3895>>, <<3897, 3897>>, <<3953, 3966>>, <<3968, 3972>>,
    <<3974, 3975>>, <<3981, 3991>>, <<3993, 4028>>, <<4038, 4038>>, <<4141, 4144>>, <<4146, 4151>>,
    <<4153, 4154>>, <<4157, 4158>>, <<4184, 4185>>, <<4190, 4192>>, <<4209, 4212>>, <<4226, 4226>>,
    <<4229, 4230>>, <<4237, 4237>>, <<4253, 4253>>, <<4348, 4348>>, <<4957, 4959>>, <<5906, 5908>>,
    <<5938, 5939>>, <<5970, 5971>>, <<6002, 6003>>, <<6068, 6069>>, <<6071, 6077>>, <<6086, 6086>>,
    <<6089, 6099>>, <<6103, 6103>>, <<6109, 6109>>, <<6155, 6159>>, <<6211, 6211>>, <<6277, 6278>>,
    <<6313, 6313>>, <<6432, 6434>>, <<6439, 6440>>, <<6450, 6450>>, <<6457, 6459>>, <<6679, 6680>>,
    <<6683, 6683>>, <<6742, 6742>>, <<6744, 6750>>, <<6752, 6752>>, <<6754, 6754>>, <<6757, 6764>>,
    <<6771, 6780>>, <<6783, 6783>>, <<6823, 6823>>, <<6832, 6877>>, <<6880, 6891>>, <<6912, 6915>>,
    <<6964, 6964>>, <<6966, 6970>>, <<6972, 6972>>, <<6978, 6978>>, <<7019, 7027>>, <<7040, 7041>>,
    <<7074, 7077>>, <<7080, 7081>>, <<7083, 7085>>, <<7142, 7142>>, <<7144, 7145>>, <<7149, 7149>>,
    <<7151, 7153>>, <<7212, 7219>>, <<7222, 7223>>, <<7288, 7293>>, <<7376, 7378>>, <<7380, 7392>>,
    <<7394, 7400>>, <<7405, 7405>>, <<7412, 7412>>, <<7416, 7417>>, <<7468, 7530>>, <<7544, 7544>>,
    <<7579, 7679>>, <<8125, 8125>>, <<8127, 8129>>, <<8141, 8143>>, <<8157, 8159>>, <<8173, 8175>>,
    <<8189, 8190>>, <<8203, 8207>>, <<8216, 8217>>, <<8228, 8228>>, <<8231, 8231>>, <<8234, 8238>>,
    <<8288, 8292>>, <<8294, 8303>>, <<8305, 8305>>, <<8319, 8319>>, <<8336, 8348>>, <<8400, 8432>>,
    <<11388, 11389>>, <<11503, 11505>>, <<11631, 11631>>, <<11647, 11647>>, <<11744, 11775>>, <<11823, 11823>>,
    <<12293, 12293>>, <<12330, 12333>>, <<12337, 12341>>, <<12347, 12347>>, <<12441, 12446>>, <<12540, 12542>>,
    <<40981, 40981>>, <<42232, 42237>>, <<42508, 42508>>, <<42607, 42610>>, <<42612, 42621>>, <<42623, 42623>>,
    <<42652, 42655>>, <<42736, 42737>>, <<42752, 42785>>, <<42864, 42864>>, <<42888, 42890>>, <<42993, 42996>>,
    <<43000, 43001>>, <<43010, 43010>>, <<43014, 43014>>, <<43019, 43019>>, <<43045, 43046>>, <<43052, 43052>>,
    <<43204, 43205>>, <<43232, 43249>>, <<43263, 43263>>, <<43302, 43309>>, <<43335, 43345>>, <<43392, 43394>>,
    <<43443, 43443>>, <<43446, 43449>>, <<43452, 43453>>, <<43471, 43471>>, <<43493, 43494>>, <<43561, 43566>>,
    <<43569, 43570>>, <<43573, 43574>>, <<43587, 43587>>, <<43596, 43596>>, <<43632, 43632>>, <<43644, 43644>>,
    <<43696, 43696>>, <<43698, 43700>>, <<43703, 43704>>, <<43710, 43711>>, <<43713, 43713>>, <<43741, 43741>>,
    <<43756, 43757>>, <<43763, 43764>>, <<43766, 43766>>, <<43867, 43871>>, <<43881, 43883>>, <<44005, 44005>>,
    <<44008, 44008>>, <<44013, 44013>>, <<64286, 64286>>, <<64434, 64450>>, <<65024, 65039>>, <<65043, 65043>>,
    <<65056, 65071>>, <<65106, 65106>>, <<65109, 65109>>, <<65279, 65279>>, <<65287, 65287>>, <<65294, 65294>>,
    <<65306, 65306>>, <<65342, 65342>>, <<65344, 65344>>, <<65392, 65392>>, <<65438, 65439>>, <<65507, 65507>>,
    <<65529, 65531>>, <<66045, 66045>>, <<66272, 66272>>, <<66422, 66426>>, <<67456, 67461>>, <<67463, 67504>>,
    <<67506, 67514>>, <<68097, 68099>>, <<68101, 68102>>, <<68108, 68111>>, <<68152, 68154>>, <<68159, 68159>>,
    <<68325, 68326>>, <<68900, 68903>>, <<68942, 68942>>, <<68969, 68973>>, <<68975, 68975>>, <<69291, 69292>>,
    <<69317, 69317>>, <<69370, 69375>>, <<69446, 69456>>, <<69506, 69509>>, <<69633, 69633>>, <<69688, 69702>>,
    <<69744, 69744>>, <<69747, 69748>>, <<69759, 69761>>, <<69811, 69814>>, <<69817, 69818>>, <<69821, 69821>>,
    <<69826, 69826>>, <<69837, 69837>>, <<69888, 69890>>, <<69927, 69931>>, <<69933, 69940>>, <<70003, 70003>>,
    <<70016, 70017>>, <<70070, 70078>>, <<70089, 70092>>, <<70095, 70095>>, <<70191, 70193>>, <<70196, 70196>>,
    <<70198, 70199>>, <<70206, 70206>>, <<70209, 70209>>, <<70367, 70367>>, <<70371, 70378>>, <<70400, 70401>>,
    <<70459, 70460>>, <<70464, 70464>>, <<70502, 70508>>, <<70512, 70516>>, <<70587, 70592>>, <<70606, 70606>>,
    <<70608, 70608>>, <<70610, 70610>>, <<70625, 70626>>, <<70712, 70719>>, <<70722, 70724>>, <<70726, 70726>>,
    <<70750, 70750>>, <<70835, 70840>>, <<70842, 70842>>, <<70847, 70848>>, <<70850, 70851>>, <<71090, 71093>>,
    <<71100, 71101>>, <<71103, 71104>>, <<71132, 71133>>, <<71219, 71226>>, <<71229, 71229>>, <<71231, 71232>>,
    <<71339, 71339>>, <<71341, 71341>>, <<71344, 71349>>, <<71351, 71351>>, <<71453, 71453>>, <<71455, 71455>>,
    <<71458, 71461>>, <<71463, 71467>>, <<71727, 71735>>, <<71737, 71738>>, <<71995, 71996>>, <<71998, 71998>>,
    <<72003, 72003>>, <<72148, 72151>>, <<72154, 72155>>, <<72160, 72160>>, <<72193, 72202>>, <<72243, 72248>>,
    <<72251, 72254>>, <<72263, 72263>>, <<72273, 72278>>, <<72281, 72283>>, <<72330, 72342>>, <<72344, 72345>>,
    <<72544, 72544>>, <<72546, 72548>>, <<72550, 72550>>, <<72752, 72758>>, <<72760, 72765>>, <<72767, 72767>>,
    <<72850, 72871>>, <<72874, 72880>>, <<72882, 72883>>, <<72885, 72886>>, <<73009, 73014>>, <<73018, 73018>>,
    <<73020, 73021>>, <<73023, 73029>>, <<73031, 73031>>, <<73104, 73105>>, <<73109, 73109>>, <<73111, 73111>>,
    <<73177, 73177>>, <<73459, 73460>>, <<73472, 73473>>, <<73526, 73530>>, <<73536, 73536>>, <<73538, 73538>>,
    <<73562, 73562>>, <<78896, 78912>>, <<78919, 78933>>, <<90398, 90409>>, <<90413, 90415>>, <<92912, 92916>>,
    <<92976, 92982>>, <<92992, 92995>>, <<93504, 93506>>, <<93547, 93548>>, <<94031, 94031>>, <<94095, 94111>>,
    <<94176, 94177>>, <<94179, 94180>>, <<94194, 94195>>, <<110576, 110579>>, <<110581, 110587>>, <<110589, 110590>>,
    <<113821, 113822>>, <<113824, 113827>>, <<118528, 118573>>, <<118576, 118598>>, <<119143, 119145>>, <<119155, 119170>>,
    <<119173, 119179>>, <<119210, 119213>>, <<119362, 119364>>, <<121344, 121398>>, <<121403, 121452>>, <<121461, 121461>>,
    <<121476, 121476>>, <<121499, 121503>>, <<121505, 121519>>, <<122880, 122886>>, <<122888, 122904>>, <<122907, 122913>>,
    <<122915, 122916>>, <<122918, 122922>>, <<122928, 122989>>, <<123023, 123023>>, <<123184, 123197>>, <<123566, 123566>>,
    <<123628, 123631>>, <<124139, 124143>>, <<124398, 124399>>, <<124643, 124643>>, <<124646, 124646>>, <<124654, 124655>>,
    <<124661, 124661>>, <<124671, 124671>>, <<125136, 125142>>, <<125252, 125259>>, <<127995, 127999>>, <<917505, 917505>>,
    <<917536, 917631>>, <<917760, 917999>>
>>

\* the code points of a sequence of ranges
InRanges(ranges) ==
    UNION { ranges[k][1]..ranges[k][2] : k \in 1..Len(ranges) }

Cased == InRanges(CasedRanges)
CaseIgnorable == InRanges(CaseIgnorableRanges)

isCased(cp) == cp \in Cased
isCaseIgnorable(cp) == cp \in CaseIgnorable

\* the code points of a run of LowerRuns
RunOf(r) == { r[1] + r[3] * n : n \in 0..((r[2] - r[1]) \div r[3]) }

\* the one-to-one lower-case mappings as a function
LowerMap ==
    [cp \in UNION { RunOf(LowerRuns[k]) : k \in 1..Len(LowerRuns) } |->
        cp + LowerRuns[CHOOSE k \in 1..Len(LowerRuns) : cp \in RunOf(LowerRuns[k])][4]]

\* the lower-case code point of a code point that has a one-to-one mapping
LowerChar(cp) == IF cp \in DOMAIN LowerMap THEN LowerMap[cp] ELSE cp

isHighSurrogate(u) == 55296 <= u /\ u <= 56319
isLowSurrogate(u) == 56320 <= u /\ u <= 57343

\* the code points of a string; a surrogate that is not part of a pair stands
\* for itself
RECURSIVE codePoints(_)
codePoints(s) ==
    IF s = <<>> THEN <<>>
    ELSE IF Len(s) >= 2 /\ isHighSurrogate(s[1]) /\ isLowSurrogate(s[2])
         THEN <<65536 + (s[1] - 55296) * 1024 + (s[2] - 56320)>>
              \o codePoints(SubSeq(s, 3, Len(s)))
         ELSE <<s[1]>> \o codePoints(Tail(s))

\* the code units of a code point
codeUnits(cp) ==
    IF cp >= 65536
    THEN <<55296 + ((cp - 65536) \div 1024), 56320 + ((cp - 65536) % 1024)>>
    ELSE <<cp>>

\* Final_Sigma: position i of the code points p follows a cased letter, with
\* nothing but case-ignorable code points between, and is not followed by one
FinalSigma(p, i) ==
    /\ \E j \in 1..(i - 1) :
          isCased(p[j]) /\ \A k \in (j + 1)..(i - 1) : isCaseIgnorable(p[k])
    /\ ~\E j \in (i + 1)..Len(p) :
          isCased(p[j]) /\ \A k \in (i + 1)..(j - 1) : isCaseIgnorable(p[k])

\* the lower case of the code point at position i of p: U+0130 becomes
\* U+0069 U+0307, a capital sigma (U+03A3) in final position becomes U+03C2
lowerAt(p, i) ==
    IF p[i] = 304 THEN <<105, 775>>
    ELSE IF p[i] = 931 /\ FinalSigma(p, i) THEN <<962>>
    ELSE codeUnits(LowerChar(p[i]))

RECURSIVE lowerFrom(_, _)
lowerFrom(p, i) == IF i > Len(p) THEN <<>> ELSE lowerAt(p, i) \o lowerFrom(p, i + 1)

\* String.prototype.toLowerCase
toLowerCase(s) == lowerFrom(codePoints(s), 1)

\* String.prototype.includes
includes(s, q) ==
    \E i \in 0..(Len(s) - Len(q)) : \A j \in 1..Len(q) : s[i + j] = q[j]

----------------------------------------------------------------------------
(* Response bodies *)

\* interface Cryptocurrency: the fields the logic reads (id is the row key)
Coins == { [id |-> 1, is_default |-> TRUE],  [id |-> 2, is_default |-> FALSE],
           [id |-> 3, is_default |-> TRUE] }

RECURSIVE SeqsUpTo(_, _)
SeqsUpTo(S, n) ==
    IF n = 0 THEN { <<>> }
    ELSE LET shorter == SeqsUpTo(S, n - 1)
         IN  shorter \cup { Append(s, x) : s \in { t \in shorter : Len(t) = n - 1 },
                                           x \in S }

\* list responses: every arrangement of up to MaxList distinct coins
ListBodies == { s \in SeqsUpTo(Coins, MaxList) :
                  \A i, j \in 1..Len(s) : i # j => s[i].id # s[j].id }

\* the list responses used where the content of the list is not examined
SmallListBodies == { s \in ListBodies : Len(s) = 2 /\ s[1].id = 2 /\ s[2].id = 1 }

\* interface SearchResult
BTC == [symbol |-> <<66, 84, 67>>, name |-> <<66, 105, 116, 99, 111, 105, 110>>]                \* "BTC", "Bitcoin"
SUB == [symbol |-> <<83, 85, 66>>, name |-> <<83, 117, 98, 116, 111, 107, 101, 110>>]           \* "SUB", "Subtoken"
SOSO == [symbol |-> <<931, 927, 931, 927>>, name |-> <<83, 111, 115, 111>>]               \* four Greek capitals sigma omicron sigma omicron, "Soso"

\* search responses: the first n entries of SOSO, BTC, SUB, BTC, SUB, ...
SearchBodies == { [i \in 1..n |-> IF i = 1 THEN SOSO ELSE IF i % 2 = 0 THEN BTC ELSE SUB] :
                    n \in 0..MaxSearchBody }

SmallSearchBodies == { s \in SearchBodies : Len(s) = 2 }

\* the texts a keystroke can leave in the input: "", "b", "bt", "BT", the
\* Greek capitals sigma omicron sigma, and a high surrogate without its low
\* surrogate followed by "b"
Queries == { <<>>, <<98>>, <<98, 116>>, <<66, 84>>, <<931, 927, 931>>, <<55296, 98>> }
SmallQueries == { <<98, 116>> }                               \* "bt"

\* the texts long enough to be searched for
FullQueries == { q \in Queries : Len(q) >= MinQueryLen }

\* response.data.error of a failed search or add
BackendErrorTexts == { "Cryptocurrency not found" }

\* JSON.stringify of a list error response whose body is no array
ServerErrorData == { "{\"error\":\"rate limited\"}" }

\* axiosError.message of a probe failure that is neither a timeout nor a network error
ProbeErrorMessages == { "Request failed with status code 500" }

----------------------------------------------------------------------------
(* fetchCryptocurrencies: the sort *)

\* the comparator passed to response.data.sort
compareDefault(a, b) ==
    IF a.is_default = b.is_default THEN 0
    ELSE IF a.is_default THEN -1 ELSE 1

\* a faulty InsertSorted: x goes in front of the elements that compare equal to it
RECURSIVE InsertSortedUnstable(_, _)
InsertSortedUnstable(x, s) ==
    IF s = <<>> THEN <<x>>
    ELSE IF compareDefault(Head(s), x) < 0
         THEN <<Head(s)>> \o InsertSortedUnstable(x, Tail(s))
         ELSE <<x>> \o s

\* one step of the stable sort: x goes behind every element that does not
\* compare greater than it
RECURSIVE InsertSorted(_, _)
InsertSorted(x, s) ==
    IF s = <<>> THEN <<x>>
    ELSE IF compareDefault(Head(s), x) <= 0
         THEN <<Head(s)>> \o InsertSorted(x, Tail(s))
         ELSE <<x>> \o s

RECURSIVE SortInto(_, _)
SortInto(s, acc) ==
    IF s = <<>> THEN acc ELSE SortInto(Tail(s), InsertSorted(Head(s), acc))

\* Array.prototype.sort with compareDefault (stable since ECMAScript 2019)
sortedCryptos(data) == SortInto(data, <<>>)

----------------------------------------------------------------------------
(* searchCryptocurrencies: the filter *)

Min(a, b) == IF a <= b THEN a ELSE b

\* Array.prototype.slice(from, to)
slice(s, from, to) == SubSeq(s, from + 1, Min(to, Len(s)))

\* the predicate passed to response.data.filter
matchesQuery(result, query) ==
    \/ includes(toLowerCase(result.symbol), toLowerCase(query))
    \/ includes(toLowerCase(result.name), toLowerCase(query))

validResults(data, query) ==
    LET Keep(r) == matchesQuery(r, query)
    IN  slice(SelectSeq(data, Keep), 0, SearchLimit)

----------------------------------------------------------------------------
(* Error messages *)

MsgShowingDefaults == "Unable to fetch live cryptocurrency data. Showing default coins."
MsgNoResponse == "No response from server. Check your network connection."
MsgSetup == "Error setting up the request. Check your network connection."
MsgUnexpected == "An unexpected error occurred"
MsgServerError(data) == "Server Error: " \o data
MsgBadPing == "Unexpected server response"
MsgProbeTimeout == "Server connection timed out. Is the backend running?"
MsgProbeNetwork == "Network error. Please check your server connection."
MsgProbeOther(m) == "Unable to connect to the server: " \o m
MsgProbeUnexpected == "An unexpected error occurred during server connectivity check."
MsgSearchFailed(text) == "Search failed: " \o text
MsgSearchUnknown == "Unknown error"
MsgSearchRetry == "Failed to perform search. Please try again."
MsgAddFailed == "Failed to add cryptocurrency"

----------------------------------------------------------------------------
(* State helpers *)

\* lodash lastArgs when undefined; otherwise it is the argument list <<query>>
NoArgs == <<>>

\* a state setter: React drops the update once the component is unmounted
Upd(old, new) == IF mounted THEN new ELSE old

RemoveAt(s, i) == [k \in 1..(Len(s) - 1) |-> IF k < i THEN s[k] ELSE s[k + 1]]

\* probe, list and add requests in flight
Pending == Len(fetches) + Len(adds) + (IF probe = "inflight" THEN 1 ELSE 0)

Init ==
    /\ cryptocurrencies = <<>>
    /\ isSearchDialogOpen = FALSE
    /\ searchTerm = <<>>
    /\ searchResults = <<>>
    /\ error = ""
    /\ isLoading = TRUE
    /\ anchorEl = FALSE
    /\ mounted = TRUE
    /\ pollRemaining = PollMs
    /\ probe = "inflight"
    /\ fetches = <<>>
    /\ searches = <<>>
    /\ adds = <<>>
    /\ debTimer = -1
    /\ debSince = DebounceMs
    /\ debArgs = NoArgs
    /\ last = [op |-> "Mount"]
    /\ hist = [lastKey |-> <<>>, sinceKey |-> DebounceMs, multi |-> FALSE,
               requests |-> 0, sentQuery |-> <<>>, sentSince |-> 0, selected |-> FALSE]

----------------------------------------------------------------------------
(* fetchCryptocurrencies *)

\* the synchronous part of fetchCryptocurrencies, up to the await
IssueFetch(origin) ==
    /\ isLoading' = Upd(isLoading, TRUE)
    /\ error' = Upd(error, "")
    /\ fetches' = Append(fetches, [origin |-> origin])

\* a faulty handleAddCrypto that leaves the dialog open after its fetch
AfterAddFetchKeepsDialog ==
    /\ isSearchDialogOpen' = isSearchDialogOpen
    /\ searchResults' = Upd(searchResults, <<>>)
    /\ searchTerm' = Upd(searchTerm, <<>>)
    /\ error' = Upd(error, "")

\* the rest of handleAddCrypto's try block, run when its fetch has settled
AfterAddFetch ==
    /\ isSearchDialogOpen' = Upd(isSearchDialogOpen, FALSE)
    /\ searchResults' = Upd(searchResults, <<>>)
    /\ searchTerm' = Upd(searchTerm, <<>>)
    /\ error' = Upd(error, "")

\* a faulty fetchCryptocurrencies that drops the response of a request that is
\* not the oldest one in flight
FetchOkOldestOnly(i, body) ==
    /\ i \in 1..Len(fetches)
    /\ fetches' = RemoveAt(fetches, i)
    /\ cryptocurrencies' = IF i = 1 THEN Upd(cryptocurrencies, sortedCryptos(body))
                           ELSE cryptocurrencies
    /\ isLoading' = Upd(isLoading, FALSE)
    /\ IF fetches[i].origin = "add"
       THEN AfterAddFetch
       ELSE UNCHANGED <<isSearchDialogOpen, searchResults, searchTerm, error>>
    /\ UNCHANGED <<anchorEl, mounted, pollRemaining, probe, searches, adds,
                   debVars>>

\* the list response arrives with a success status
FetchOk(i, body) ==
    /\ i \in 1..Len(fetches)
    /\ fetches' = RemoveAt(fetches, i)
    /\ cryptocurrencies' = Upd(cryptocurrencies, sortedCryptos(body))
    /\ isLoading' = Upd(isLoading, FALSE)
    /\ IF fetches[i].origin = "add"
       THEN AfterAddFetch
       ELSE UNCHANGED <<isSearchDialogOpen, searchResults, searchTerm, error>>
    /\ UNCHANGED <<anchorEl, mounted, pollRemaining, probe, searches, adds,
                   debVars>>

FetchFailKinds == { "resp_array", "resp_other", "timeout", "network", "setup",
                    "non_axios" }

\* a faulty catch block that reports nothing when the request could not be set up
fetchErrorMessageSilent(kind, data) ==
    CASE kind = "resp_array" -> MsgShowingDefaults
      [] kind = "resp_other" -> MsgServerError(data)
      [] kind \in { "timeout", "network" } -> MsgNoResponse
      [] kind = "setup" -> ""
      [] OTHER -> MsgUnexpected

\* the message the catch block of fetchCryptocurrencies sets
fetchErrorMessage(kind, data) ==
    CASE kind = "resp_array" -> MsgShowingDefaults
      [] kind = "resp_other" -> MsgServerError(data)
      [] kind \in { "timeout", "network" } -> MsgNoResponse
      [] kind = "setup" -> MsgSetup
      [] OTHER -> MsgUnexpected

\* the list request fails: an error status with an array body or with other
\* data, a timeout (ECONNABORTED), no response, a request that could not be set
\* up, or an exception that is no AxiosError (a success body that cannot be sorted)
FetchFail(i, kind, data) ==
    /\ i \in 1..Len(fetches)
    /\ kind \in FetchFailKinds
    /\ fetches' = RemoveAt(fetches, i)
    /\ isLoading' = Upd(isLoading, FALSE)
    /\ cryptocurrencies' = IF kind = "resp_array"
                           THEN Upd(cryptocurrencies, data)
                           ELSE cryptocurrencies
    /\ IF fetches[i].origin = "add"
       THEN AfterAddFetch
       ELSE /\ error' = Upd(error, fetchErrorMessage(kind, data))
            /\ UNCHANGED <<isSearchDialogOpen, searchResults, searchTerm>>
    /\ UNCHANGED <<anchorEl, mounted, pollRemaining, probe, searches, adds,
                   debVars>>

----------------------------------------------------------------------------
(* The mount effect: checkServerConnectivity, initializeApp, the interval *)

\* a faulty initializeApp that fetches whatever checkServerConnectivity returns
ProbeBadStatusFetches ==
    /\ probe = "inflight"
    /\ probe' = "bad"
    /\ IssueFetch("init")
    /\ UNCHANGED <<cryptocurrencies, isSearchDialogOpen, searchTerm, searchResults,
                   anchorEl, mounted, pollRemaining, searches, adds, debVars>>

\* the ping answers with status 'ok': initializeApp goes on to fetch
ProbeOk ==
    /\ probe = "inflight"
    /\ probe' = "ok"
    /\ IssueFetch("init")
    /\ UNCHANGED <<cryptocurrencies, isSearchDialogOpen, searchTerm, searchResults,
                   anchorEl, mounted, pollRemaining, searches, adds, debVars>>

\* the ping answers with a success status and a body without status 'ok'
ProbeBadStatus ==
    /\ probe = "inflight"
    /\ probe' = "bad"
    /\ error' = Upd(error, MsgBadPing)
    /\ UNCHANGED <<cryptocurrencies, isSearchDialogOpen, searchTerm, searchResults,
                   isLoading, anchorEl, mounted, pollRemaining, fetches, searches,
                   adds, debVars>>

ProbeFailKinds == { "timeout", "network", "other", "non_axios" }

\* the message the catch block of checkServerConnectivity sets
probeErrorMessage(kind, m) ==
    CASE kind = "timeout" -> MsgProbeTimeout
      [] kind = "network" -> MsgProbeNetwork
      [] kind = "other" -> MsgProbeOther(m)
      [] OTHER -> MsgProbeUnexpected

\* the ping fails
ProbeFail(kind, m) ==
    /\ probe = "inflight"
    /\ kind \in ProbeFailKinds
    /\ probe' = "failed"
    /\ error' = Upd(error, probeErrorMessage(kind, m))
    /\ UNCHANGED <<cryptocurrencies, isSearchDialogOpen, searchTerm, searchResults,
                   isLoading, anchorEl, mounted, pollRemaining, fetches, searches,
                   adds, debVars>>

\* time passes on the interval's clock
PollTick ==
    /\ pollRemaining > 0
    /\ pollRemaining' = pollRemaining - PollTickMs
    /\ UNCHANGED <<uiVars, mounted, probe, fetches, searches, adds, debVars>>

\* a faulty interval: a timeout that is not re-armed
IntervalFireOnce ==
    /\ pollRemaining = 0
    /\ Pending < MaxInFlight
    /\ pollRemaining' = -1
    /\ IssueFetch("timer")
    /\ UNCHANGED <<cryptocurrencies, isSearchDialogOpen, searchTerm, searchResults,
                   anchorEl, mounted, probe, searches, adds, debVars>>

\* the interval callback: fetchCryptocurrencies, and the next period starts
IntervalFire ==
    /\ pollRemaining = 0
    /\ Pending < MaxInFlight
    /\ pollRemaining' = PollMs
    /\ IssueFetch("timer")
    /\ UNCHANGED <<cryptocurrencies, isSearchDialogOpen, searchTerm, searchResults,
                   anchorEl, mounted, probe, searches, adds, debVars>>

\* a faulty cleanup that leaves the interval armed
UnmountNoClear ==
    /\ mounted
    /\ mounted' = FALSE
    /\ pollRemaining' = pollRemaining
    /\ UNCHANGED <<uiVars, probe, fetches, searches, adds, debVars>>

\* the effect's cleanup: clearInterval(interval)
Unmount ==
    /\ mounted
    /\ mounted' = FALSE
    /\ pollRemaining' = -1
    /\ UNCHANGED <<uiVars, probe, fetches, searches, adds, debVars>>

----------------------------------------------------------------------------
(* The search dialog: handleSearchChange, debouncedSearch, searchCryptocurrencies *)

\* the Add Coin button
OpenDialog ==
    /\ mounted
    /\ ~isSearchDialogOpen
    /\ isSearchDialogOpen' = TRUE
    /\ UNCHANGED <<cryptocurrencies, searchTerm, searchResults, error, isLoading,
                   anchorEl, mounted, pollRemaining, probe, fetches, searches, adds,
                   debVars>>

\* the dialog's onClose
CloseDialog ==
    /\ mounted
    /\ isSearchDialogOpen
    /\ isSearchDialogOpen' = FALSE
    /\ UNCHANGED <<cryptocurrencies, searchTerm, searchResults, error, isLoading,
                   anchorEl, mounted, pollRemaining, probe, fetches, searches, adds,
                   debVars>>

\* a click outside the popup
ClickAway ==
    /\ mounted
    /\ Len(searchResults) > 0
    /\ anchorEl
    /\ anchorEl' = FALSE
    /\ UNCHANGED <<cryptocurrencies, isSearchDialogOpen, searchTerm, searchResults,
                   error, isLoading, mounted, pollRemaining, probe, fetches, searches,
                   adds, debVars>>

\* a faulty debounce: leading edge, the first call of a burst is invoked at once
\* and the later ones are dropped
DebouncedLeading(query) ==
    /\ debArgs' = NoArgs
    /\ debSince' = 0
    /\ debTimer' = IF debTimer = -1 THEN DebounceMs ELSE debTimer
    /\ IF debTimer = -1 /\ Len(query) >= MinQueryLen
       THEN searches' = Append(searches, [query |-> query])
       ELSE searches' = searches

\* lodash debounced(query): lastArgs and lastCallTime are recorded, and the timer
\* is started unless one is pending
Debounced(query) ==
    /\ debArgs' = <<query>>
    /\ debSince' = 0
    /\ debTimer' = IF debTimer = -1 THEN DebounceMs ELSE debTimer
    /\ searches' = searches

\* handleSearchChange: a change of the input's text
Keystroke(query) ==
    /\ mounted
    /\ isSearchDialogOpen
    /\ query # searchTerm
    /\ Len(searches) < MaxSearches
    /\ searchTerm' = query
    /\ anchorEl' = TRUE
    /\ Debounced(query)
    /\ UNCHANGED <<cryptocurrencies, isSearchDialogOpen, searchResults, error,
                   isLoading, mounted, pollRemaining, probe, fetches, adds>>

\* time passes on the debounce timer's clock
Tick ==
    /\ debTimer > 0
    /\ debTimer' = debTimer - TickMs
    /\ debSince' = Min(DebounceMs, debSince + TickMs)
    /\ UNCHANGED <<uiVars, mounted, pollRemaining, probe, fetches, searches, adds,
                   debArgs>>

\* encodeURIComponent(s) returns: s has no surrogate outside a pair (otherwise
\* it throws a URIError)
encodes(s) ==
    \A k \in 1..Len(codePoints(s)) :
        ~(isHighSurrogate(codePoints(s)[k]) \/ isLowSurrogate(codePoints(s)[k]))

\* a faulty searchCryptocurrencies without the length check
SearchCallNoGuard(query) ==
    IF encodes(query)
    THEN /\ searches' = Append(searches, [query |-> query])
         /\ UNCHANGED <<searchResults, error>>
    ELSE /\ error' = Upd(error, MsgSearchRetry)
         /\ searchResults' = Upd(searchResults, <<>>)
         /\ searches' = searches

\* searchCryptocurrencies(query), up to its await: a short query empties the
\* candidates; a query that encodeURIComponent rejects sends no request, the
\* URIError is caught as an error that is no AxiosError; otherwise the request
\* is sent
SearchCall(query) ==
    IF Len(query) < MinQueryLen
    THEN /\ searchResults' = Upd(searchResults, <<>>)
         /\ UNCHANGED <<searches, error>>
    ELSE IF encodes(query)
    THEN /\ searches' = Append(searches, [query |-> query])
         /\ UNCHANGED <<searchResults, error>>
    ELSE /\ error' = Upd(error, MsgSearchRetry)
         /\ searchResults' = Upd(searchResults, <<>>)
         /\ searches' = searches

\* lodash timerExpired: the trailing edge when the wait has passed since the
\* last call, otherwise the timer is restarted for the rest of the wait
DebounceExpired ==
    /\ debTimer = 0
    /\ IF debSince >= DebounceMs
       THEN /\ debTimer' = -1
            /\ debArgs' = NoArgs
            /\ debSince' = debSince
            /\ IF debArgs # NoArgs
               THEN SearchCall(debArgs[1])
               ELSE UNCHANGED <<searches, searchResults, error>>
       ELSE /\ debTimer' = DebounceMs - debSince
            /\ UNCHANGED <<debArgs, debSince, searches, searchResults, error>>
    /\ UNCHANGED <<cryptocurrencies, isSearchDialogOpen, searchTerm, isLoading,
                   anchorEl, mounted, pollRemaining, probe, fetches, adds>>

\* the search response arrives with a success status
SearchOk(i, body) ==
    /\ i \in 1..Len(searches)
    /\ searches' = RemoveAt(searches, i)
    /\ searchResults' = Upd(searchResults, validResults(body, searches[i].query))
    /\ UNCHANGED <<cryptocurrencies, isSearchDialogOpen, searchTerm, error, isLoading,
                   anchorEl, mounted, pollRemaining, probe, fetches, adds, debVars>>

SearchFailKinds == { "resp_text", "resp_no_text", "timeout", "network", "non_axios" }

\* the message the catch block of searchCryptocurrencies sets
searchErrorMessage(kind, text) ==
    CASE kind = "resp_text" -> MsgSearchFailed(text)
      [] kind \in { "resp_no_text", "timeout", "network" } ->
             MsgSearchFailed(MsgSearchUnknown)
      [] OTHER -> MsgSearchRetry

\* the search request fails: an error response with or without an error text, a
\* timeout (ECONNABORTED), no response, or an exception that is no AxiosError
SearchFail(i, kind, text) ==
    /\ i \in 1..Len(searches)
    /\ kind \in SearchFailKinds
    /\ searches' = RemoveAt(searches, i)
    /\ error' = Upd(error, searchErrorMessage(kind, text))
    /\ searchResults' = Upd(searchResults, <<>>)
    /\ UNCHANGED <<cryptocurrencies, isSearchDialogOpen, searchTerm, isLoading,
                   anchorEl, mounted, pollRemaining, probe, fetches, adds, debVars>>

----------------------------------------------------------------------------
(* handleAddCrypto, handleSelectSearchResult *)

\* a click on a candidate of the in-dialog list: handleAddCrypto(result.symbol)
SelectDialog ==
    /\ mounted
    /\ isSearchDialogOpen
    /\ Len(searchResults) > 0
    /\ Pending < MaxInFlight
    /\ adds' = Append(adds, [via |-> "dialog"])
    /\ UNCHANGED <<uiVars, mounted, pollRemaining, probe, fetches, searches, debVars>>

\* a click on a candidate of the popup list: handleSelectSearchResult(result)
SelectPopup ==
    /\ mounted
    /\ Len(searchResults) > 0
    /\ anchorEl
    /\ Pending < MaxInFlight
    /\ adds' = Append(adds, [via |-> "popup"])
    /\ searchTerm' = <<>>
    /\ searchResults' = <<>>
    /\ anchorEl' = FALSE
    /\ UNCHANGED <<cryptocurrencies, isSearchDialogOpen, error, isLoading, mounted,
                   pollRemaining, probe, fetches, searches, debVars>>

\* the add request succeeds: handleAddCrypto goes on to await fetchCryptocurrencies
AddOk(i) ==
    /\ i \in 1..Len(adds)
    /\ adds' = RemoveAt(adds, i)
    /\ IssueFetch("add")
    /\ UNCHANGED <<cryptocurrencies, isSearchDialogOpen, searchTerm, searchResults,
                   anchorEl, mounted, pollRemaining, probe, searches, debVars>>

AddFailKinds == { "resp_text", "no_text", "non_axios" }

\* the message the catch block of handleAddCrypto sets
addErrorMessage(kind, text) ==
    CASE kind = "resp_text" -> text
      [] kind = "no_text" -> MsgAddFailed
      [] OTHER -> MsgUnexpected

\* a faulty handleAddCrypto whose catch block also resets the search
AddFailResets(i, kind, text) ==
    /\ i \in 1..Len(adds)
    /\ kind \in AddFailKinds
    /\ adds' = RemoveAt(adds, i)
    /\ error' = Upd(error, addErrorMessage(kind, text))
    /\ searchTerm' = Upd(searchTerm, <<>>)
    /\ UNCHANGED <<cryptocurrencies, isSearchDialogOpen, searchResults,
                   isLoading, anchorEl, mounted, pollRemaining, probe, fetches,
                   searches, debVars>>

\* the add request fails: an error response with an error text, any other
\* AxiosError, or an exception that is no AxiosError
AddFail(i, kind, text) ==
    /\ i \in 1..Len(adds)
    /\ kind \in AddFailKinds
    /\ adds' = RemoveAt(adds, i)
    /\ error' = Upd(error, addErrorMessage(kind, text))
    /\ UNCHANGED <<cryptocurrencies, isSearchDialogOpen, searchTerm, searchResults,
                   isLoading, anchorEl, mounted, pollRemaining, probe, fetches,
                   searches, debVars>>

----------------------------------------------------------------------------
(* Specifications *)

Other == [op |-> "Other"]

\* the search state
SearchState == [open |-> isSearchDialogOpen, term |-> searchTerm,
                results |-> searchResults]

\* the event is a selection from the popup list, or the end of the list request
\* of an add: both empty the search text and the candidates
ClearsSearch(event) ==
    \/ event.op = "SelectPopup"
    \/ event.op \in { "FetchOk", "FetchFail" } /\ event.origin = "add"

\* The history variables.  With log "off" they are left alone.  With "events",
\* last records the event.  With "bursts", hist also follows the burst of
\* keystrokes (a keystroke less than the wait after the previous one continues
\* the burst, another starts a new one): it counts the search requests sent in
\* the burst and keeps the query of the latest and the time since the last
\* keystroke at which it was sent.  With "selection", hist instead tells whether
\* a selection has cleared the search text and the candidates since the last
\* keystroke.
History(log, event) ==
    IF log = "off" THEN UNCHANGED <<last, hist>>
    ELSE
      LET sent == Len(searches') > Len(searches)
          key == event.op = "Keystroke"
          newBurst == key /\ hist.sinceKey >= DebounceMs
          since == IF key THEN 0
                   ELSE IF event.op = "Tick" THEN Min(DebounceMs, hist.sinceKey + TickMs)
                   ELSE hist.sinceKey
      IN  /\ last' = IF event.op = "Tick" THEN Other ELSE event
          /\ IF log = "bursts"
             THEN hist' = [lastKey |-> IF key THEN event.query ELSE hist.lastKey,
                           sinceKey |-> since,
                           multi |-> IF key THEN ~newBurst ELSE hist.multi,
                           requests |-> (IF newBurst THEN 0 ELSE hist.requests)
                                        + (IF sent THEN 1 ELSE 0),
                           sentQuery |-> IF sent THEN searches'[Len(searches')].query
                                         ELSE IF newBurst THEN <<>> ELSE hist.sentQuery,
                           sentSince |-> IF sent THEN since
                                         ELSE IF newBurst THEN 0 ELSE hist.sentSince,
                           selected |-> hist.selected]
             ELSE IF log = "selection"
             THEN hist' = [hist EXCEPT !.selected =
                             IF key THEN FALSE
                             ELSE IF ClearsSearch(event) THEN TRUE
                             ELSE @]
             ELSE hist' = hist

\* what DebounceExpired does in the current state
DebounceEvent ==
    IF debSince >= DebounceMs /\ debArgs # NoArgs
    THEN [op |-> "SearchCall", query |-> debArgs[1],
          sent |-> Len(searches') > Len(searches),
          hadResults |-> Len(searchResults) > 0]
    ELSE Other

\* the list response that arrived in the step before this one, if one did: its
\* body, its position among the list requests then in flight and their number
PrevFetchOk ==
    IF last.op = "FetchOk"
    THEN <<[body |-> last.body, pos |-> last.pos, inFlight |-> last.inFlight]>>
    ELSE <<>>

\* the ways a list request fails, each with the data it carries
ListFailures(bodies) ==
    { <<kind, "">> : kind \in FetchFailKinds \ { "resp_array", "resp_other" } }
    \cup { <<"resp_other", data>> : data \in ServerErrorData }
    \cup { <<"resp_array", body>> : body \in bodies }

\* the ways a ping, a search and an add fail
ProbeFailures == { <<kind, m>> : kind \in ProbeFailKinds, m \in ProbeErrorMessages }
SearchFailures ==
    { <<kind, "">> : kind \in SearchFailKinds \ { "resp_text" } }
    \cup { <<"resp_text", text>> : text \in BackendErrorTexts }
AddFailures ==
    { <<kind, "">> : kind \in AddFailKinds \ { "resp_text" } }
    \cup { <<"resp_text", text>> : text \in BackendErrorTexts }

\* one failure of each request, used where the kind of failure is not examined
SmallListFailures == { f \in ListFailures({}) : f[1] = "timeout" }
SmallProbeFailures == { f \in ProbeFailures : f[1] = "timeout" }
SmallSearchFailures == { f \in SearchFailures : f[1] = "timeout" }
SmallAddFailures == { f \in AddFailures : f[1] = "no_text" }

\* the mount effect: how the ping ends
Probing(failures, log) ==
    \/ ProbeOk /\ History(log, [op |-> "ProbeOk"])
    \/ ProbeBadStatus /\ History(log, [op |-> "ProbeBadStatus"])
    \/ \E f \in failures :
          ProbeFail(f[1], f[2]) /\ History(log, [op |-> "ProbeFail", kind |-> f[1]])

\* the interval and the unmount
Polling(log) ==
    \/ PollTick /\ History(log, Other)
    \/ IntervalFire /\ History(log, [op |-> "IntervalFire"])
    \/ Unmount /\ History(log, [op |-> "Unmount"])

\* how the list requests end
Listing(bodies, failures, log) ==
    \/ \E i \in 1..Len(fetches), body \in bodies :
          /\ FetchOk(i, body)
          /\ History(log, [op |-> "FetchOk", origin |-> fetches[i].origin, body |-> body,
                           before |-> SearchState, pos |-> i, inFlight |-> Len(fetches),
                           prevOk |-> PrevFetchOk])
    \/ \E i \in 1..Len(fetches), f \in failures :
          /\ FetchFail(i, f[1], f[2])
          /\ History(log, [op |-> "FetchFail", origin |-> fetches[i].origin,
                           kind |-> f[1], data |-> f[2], before |-> SearchState])

\* the search dialog
Searching(queries, bodies, failures, log) ==
    \/ OpenDialog /\ History(log, Other)
    \/ CloseDialog /\ History(log, Other)
    \/ ClickAway /\ History(log, Other)
    \/ \E query \in queries :
          Keystroke(query) /\ History(log, [op |-> "Keystroke", query |-> query])
    \/ Tick /\ History(log, [op |-> "Tick"])
    \/ DebounceExpired /\ History(log, DebounceEvent)
    \/ \E i \in 1..Len(searches), body \in bodies :
          /\ SearchOk(i, body)
          /\ History(log, [op |-> "SearchOk", query |-> searches[i].query, body |-> body])
    \/ \E i \in 1..Len(searches), f \in failures :
          /\ SearchFail(i, f[1], f[2])
          /\ History(log, [op |-> "SearchFail", kind |-> f[1]])

\* the selection of a candidate
Adding(failures, log) ==
    \/ SelectDialog /\ History(log, [op |-> "SelectDialog", before |-> SearchState])
    \/ SelectPopup /\ History(log, [op |-> "SelectPopup", before |-> SearchState])
    \/ \E i \in 1..Len(adds) :
          AddOk(i) /\ History(log, [op |-> "AddOk", via |-> adds[i].via])
    \/ \E i \in 1..Len(adds), f \in failures :
          /\ AddFail(i, f[1], f[2])
          /\ History(log, [op |-> "AddFail", via |-> adds[i].via, kind |-> f[1],
                           newest |-> i = Len(adds)])

\* The whole view, every handler interleaved, on the small inputs and with one
\* failure of each request; no history is kept.
Next ==
    \/ Probing(SmallProbeFailures, "off")
    \/ Polling("off")
    \/ Listing(SmallListBodies, SmallListFailures, "off")
    \/ Searching(SmallQueries, SmallSearchBodies, SmallSearchFailures, "off")
    \/ Adding(SmallAddFailures, "off")

Spec == Init /\ [][Next]_vars

\* The mount effect, the interval and the list requests alone, on every list
\* response and every failure.
NextList ==
    \/ Probing(ProbeFailures, "events")
    \/ Polling("events")
    \/ Listing(ListBodies, ListFailures(ListBodies), "events")

SpecList == Init /\ [][NextList]_vars

\* The search dialog alone, on every query, search response and failure.
NextSearch == Searching(Queries, SearchBodies, SearchFailures, "bursts")

SpecSearch == Init /\ [][NextSearch]_vars

\* A session of searching and adding within the first interval period, on the
\* small inputs and every failure of an add.
NextAdd ==
    \/ Probing(ProbeFailures, "events")
    \/ Listing(SmallListBodies, SmallListFailures, "events")
    \/ Searching(SmallQueries, SmallSearchBodies, SmallSearchFailures, "events")
    \/ Adding(AddFailures, "events")

SpecAdd == Init /\ [][NextAdd]_vars

\* A session of searching and selecting with several search texts, within the
\* first interval period, with one failure of each request.
NextSelect ==
    \/ Probing(SmallProbeFailures, "selection")
    \/ Listing(SmallListBodies, SmallListFailures, "selection")
    \/ Searching(FullQueries, SmallSearchBodies, SmallSearchFailures, "selection")
    \/ Adding(SmallAddFailures, "selection")

SpecSelect == Init /\ [][NextSelect]_vars

----------------------------------------------------------------------------
(* Properties of fetchCryptocurrencies: the sort (SpecList) *)

\* the elements of s with the given is_default flag, in the order of s
WithFlag(s, flag) ==
    LET Keep(c) == c.is_default = flag
    IN  SelectSeq(s, Keep)

\* C1: after a list fetch settles successfully, the stored list is the response
\* with its default coins first and its other coins behind them, each group in
\* the order it had in the response.
C1_StableDefaultFirst ==
    (mounted /\ last.op = "FetchOk") =>
        cryptocurrencies = WithFlag(last.body, TRUE) \o WithFlag(last.body, FALSE)

\* C1 witness: a response of three coins, a default coin, another coin and a
\* second default coin, has been stored with the two default coins in front, in
\* their response order.
C1_Witness ==
    /\ mounted
    /\ last.op = "FetchOk"
    /\ Len(last.body) = 3
    /\ last.body[1].is_default /\ ~last.body[2].is_default /\ last.body[3].is_default
    /\ cryptocurrencies = <<last.body[1], last.body[3], last.body[2]>>

----------------------------------------------------------------------------
(* Properties of the search dialog (SpecSearch) *)

\* C2: every keystroke sets the search text at once; a burst of keystrokes, each
\* less than the wait after the one before, sends at most one search request,
\* and that request carries the text of the last keystroke and is sent when the
\* wait has passed since that keystroke.
C2_DebouncedBurst ==
    /\ last.op = "Keystroke" => searchTerm = last.query
    /\ hist.requests <= 1
    /\ hist.requests = 1 =>
          /\ hist.sentQuery = hist.lastKey
          /\ hist.sentSince = DebounceMs

\* C2 witness: a burst of several keystrokes has just sent its one request.
C2_Witness ==
    /\ last.op = "SearchCall"
    /\ last.sent
    /\ hist.multi
    /\ hist.requests = 1
    /\ searches # <<>>
    /\ searches[Len(searches)].query = searchTerm

\* C3: a search with a query shorter than two characters sends no request and
\* leaves the candidate list empty; no request in flight has such a query.
C3_ShortQueryNoRequest ==
    /\ (last.op = "SearchCall" /\ Len(last.query) < MinQueryLen) =>
          (searchResults = <<>> /\ ~last.sent)
    /\ \A i \in 1..Len(searches) : Len(searches[i].query) >= MinQueryLen

\* C3 witness: a search with a one-character query has emptied a candidate list
\* that held candidates.
C3_Witness ==
    /\ last.op = "SearchCall"
    /\ Len(last.query) = 1
    /\ last.hadResults
    /\ searchResults = <<>>
    /\ searches = <<>>

\* a code unit without its case: the lower-case letter, and the final sigma
\* (U+03C2) as the sigma (U+03C3)
Caseless(u) == IF u = 962 THEN 963 ELSE LowerChar(u)

\* s contains q when the case of the letters is ignored
CIContains(s, q) ==
    \E off \in 0..(Len(s) - Len(q)) :
        \A j \in 1..Len(q) : Caseless(s[off + j]) = Caseless(q[j])

\* the positions of the entries of body whose symbol or name contains q
Matching(body, q) ==
    { i \in 1..Len(body) : CIContains(body[i].symbol, q) \/ CIContains(body[i].name, q) }

\* the k-th smallest position of M
KthOf(M, k) == CHOOSE i \in M : Cardinality({ j \in M : j < i }) = k - 1

\* C4 as stated: after a search settles successfully, the candidate list is the
\* first ten (or all, when there are fewer) of the entries of the response whose
\* symbol or name contains the query without regard to case, in response order;
\* the query of such a search has at least two code units.
C4_AsStated ==
    last.op = "SearchOk" =>
        LET M == Matching(last.body, last.query)
            n == Min(SearchLimit, Cardinality(M))
        IN  /\ Len(last.query) >= MinQueryLen
            /\ Len(searchResults) = n
            /\ \A k \in 1..n : searchResults[k] = last.body[KthOf(M, k)]

\* C4 witness: the symbol of the first entry of the response contains the query
\* letter for letter, the query ends in a capital sigma, and the entry is not
\* among the candidates.
C4_Witness ==
    /\ last.op = "SearchOk"
    /\ last.body # <<>>
    /\ last.query[Len(last.query)] = 931
    /\ includes(last.body[1].symbol, last.query)
    /\ \A k \in 1..Len(searchResults) : searchResults[k] # last.body[1]

----------------------------------------------------------------------------
(* Properties of handleAddCrypto and of the mount effect (SpecAdd) *)

\* this step sends a list request of the given origin
FetchIssued(origin) ==
    /\ Len(fetches') = Len(fetches) + 1
    /\ fetches'[Len(fetches')].origin = origin

\* dialog closed, search text empty, no candidates
SearchCleared == ~isSearchDialogOpen /\ searchTerm = <<>> /\ searchResults = <<>>

\* C5: an add request that succeeds sends exactly one list request, and nothing
\* else sends a list request for an add; when that list request has settled,
\* with a response or with a failure, the dialog is closed, the search text is
\* empty and the candidate list is empty.
C5_AddRefetchesAndClears ==
    [][ /\ last'.op = "AddOk" => fetches' = Append(fetches, [origin |-> "add"])
        /\ FetchIssued("add") => last'.op = "AddOk"
        /\ (mounted' /\ last'.op \in { "FetchOk", "FetchFail" } /\ last'.origin = "add") =>
              SearchCleared'
      ]_vars

\* C5 witness: the list request of an add has failed while the dialog was open
\* with a search text and candidates, and all three are cleared.
C5_Witness ==
    /\ last.op = "FetchFail"
    /\ last.origin = "add"
    /\ last.before.open /\ last.before.term # <<>> /\ last.before.results # <<>>
    /\ SearchCleared

\* C6 as stated: when the add request of a selection fails, the dialog flag, the
\* search text and the candidate list are what they were just before the
\* selection.  Stated for a failure handled right after its selection.
C6_AsStated ==
    [][ (last.op \in { "SelectDialog", "SelectPopup" } /\ last'.op = "AddFail"
           /\ last'.newest) =>
            SearchState' = last.before
      ]_vars

\* C6: handling the failure of an add request changes the error message and
\* nothing else of the view; a selection from the in-dialog list changes nothing
\* of the view, and a selection from the popup list empties the search text and
\* the candidate list and closes the popup when it is made, whatever becomes of
\* its add request, and leaves the dialog flag alone.
C6_AddFailureFrame ==
    [][ /\ last'.op = "AddFail" =>
              /\ UNCHANGED <<isSearchDialogOpen, searchTerm, searchResults,
                             cryptocurrencies, isLoading, anchorEl>>
              /\ mounted' => error' \in { MsgAddFailed, MsgUnexpected } \cup BackendErrorTexts
        /\ last'.op = "SelectDialog" => UNCHANGED uiVars
        /\ last'.op = "SelectPopup" =>
              /\ searchTerm' = <<>> /\ searchResults' = <<>> /\ ~anchorEl'
              /\ UNCHANGED <<isSearchDialogOpen, error, cryptocurrencies, isLoading>>
      ]_vars

\* C6 witness: the add request of a selection from the in-dialog list has
\* failed; the dialog is open with its search text and candidates, and the
\* error is the add-failure message.
C6_Witness ==
    /\ last.op = "AddFail"
    /\ last.via = "dialog"
    /\ isSearchDialogOpen /\ searchTerm # <<>> /\ searchResults # <<>>
    /\ error = MsgAddFailed

\* the messages checkServerConnectivity sets when the ping fails
ConnectivityMessages ==
    { MsgProbeTimeout, MsgProbeNetwork, MsgProbeUnexpected }
    \cup { MsgProbeOther(m) : m \in ProbeErrorMessages }

\* C7 as stated: once the ping has ended with a wrong status or has failed, no
\* list request is sent before the first tick of the interval (SpecAdd has no
\* tick: all of its behaviours lie within the first period).
C7_AsStated ==
    [][ probe' \in { "bad", "failed" } => Len(fetches') <= Len(fetches) ]_vars

\* C7: initializeApp sends a list request exactly when the ping answers with
\* status 'ok', and then it sends one; a ping with another status sets
\* 'Unexpected server response' and sends none; a failed ping sets a
\* connectivity message and sends none; after such a ping, within the first
\* period of the interval, a list request is sent only by an add that succeeded.
C7_InitFetchIffProbeOk ==
    [][ /\ (probe = "inflight" /\ probe' = "ok") =>
              fetches' = Append(fetches, [origin |-> "init"])
        /\ FetchIssued("init") => (probe = "inflight" /\ probe' = "ok")
        /\ (probe = "inflight" /\ probe' = "bad") =>
              (fetches' = fetches /\ (mounted => error' = MsgBadPing))
        /\ (probe = "inflight" /\ probe' = "failed") =>
              (fetches' = fetches /\ (mounted => error' \in ConnectivityMessages))
        /\ (probe' \in { "bad", "failed" } /\ Len(fetches') > Len(fetches)) =>
              (FetchIssued("add") /\ last'.op = "AddOk")
      ]_vars

\* C7 witness: the ping has answered with a wrong status; the error says so and
\* no list request was sent.
C7_Witness ==
    /\ last.op = "ProbeBadStatus"
    /\ probe = "bad"
    /\ error = MsgBadPing
    /\ fetches = <<>>

----------------------------------------------------------------------------
(* Properties of the error messages (SpecList) *)

\* C8 as stated, for the list request: the message set when the request times
\* out is not the message set when no response arrives for another reason.
C8_AsStated ==
    (mounted /\ last.op = "FetchFail" /\ last.kind = "timeout") =>
        error # fetchErrorMessage("network", "")

\* C8 witness: a list request has timed out and the error is the no-response
\* message.
C8_Witness ==
    /\ mounted
    /\ last.op = "FetchFail"
    /\ last.kind = "timeout"
    /\ error = MsgNoResponse

----------------------------------------------------------------------------
(* Properties of the interval (Spec) *)

\* C9: while the view is mounted the interval is armed, whatever the ping, the
\* list requests, the searches and the adds came to; it sends a list request
\* exactly when a full period has run down, and it is armed again for a full
\* period at that moment; nothing but the passing of time, its own callback and
\* the unmount changes the time left on it.
C9_PollNeverStops ==
    [][ /\ mounted' => pollRemaining' \in 0..PollMs
        /\ FetchIssued("timer") <=> (pollRemaining = 0 /\ pollRemaining' = PollMs)
        /\ pollRemaining' # pollRemaining =>
              \/ pollRemaining > 0 /\ pollRemaining' = pollRemaining - PollTickMs
              \/ pollRemaining = 0 /\ pollRemaining' = PollMs
              \/ ~mounted' /\ pollRemaining' = -1
      ]_vars

\* C9 witness: the ping has failed, a list request of the interval has failed,
\* and the view is mounted with another list request of the interval in flight
\* and the interval armed.
C9_Witness ==
    /\ mounted
    /\ probe = "failed"
    /\ error = MsgNoResponse
    /\ Len(fetches) = 1
    /\ fetches[1].origin = "timer"
    /\ pollRemaining \in 0..PollMs

\* C10: once the view is unmounted the interval is cleared and stays cleared,
\* and no step sends a list request of the interval, however the unmount is
\* interleaved with the completions of the ping, the list requests, the
\* searches and the adds.
C10_NoPollAfterUnmount ==
    [][ ~mounted' => (pollRemaining' = -1 /\ ~FetchIssued("timer")) ]_vars

\* C10 witness: the view is unmounted with the ping answered and a list request
\* and a search in flight, and the interval is cleared.
C10_Witness ==
    /\ ~mounted
    /\ pollRemaining = -1
    /\ probe = "ok"
    /\ fetches # <<>>
    /\ searches # <<>>

----------------------------------------------------------------------------
(* Properties of fetchCryptocurrencies: its catch block (SpecList) *)

\* no coin without the default flag stands in front of a coin with it
DefaultsFirst(s) ==
    \A i, j \in 1..Len(s) : (i < j /\ s[j].is_default) => s[i].is_default

\* C11 as stated: in every state the stored list has its default coins in front
\* of its other coins.
C11_AsStated == DefaultsFirst(cryptocurrencies)

\* C11 witness: a list request has failed with an array as its error body, and
\* the stored list is that array with a coin without the flag in front of a
\* default coin.
C11_Witness ==
    /\ mounted
    /\ last.op = "FetchFail"
    /\ last.kind = "resp_array"
    /\ cryptocurrencies = last.data
    /\ ~DefaultsFirst(cryptocurrencies)

\* C12: when a list request of initializeApp or of the interval fails with an
\* array as its error body, the stored list becomes that array and the error is
\* the showing-defaults message; when it fails with another error body, with no
\* response, before it could be set up or with another exception, the stored
\* list is left alone and the error is the message of that class, which is not
\* empty.
C12_FetchFailureClasses ==
    [][ (mounted' /\ last'.op = "FetchFail" /\ last'.origin # "add") =>
          CASE last'.kind = "resp_array" ->
                   /\ cryptocurrencies' = last'.data
                   /\ error' = MsgShowingDefaults
            [] OTHER ->
                   /\ cryptocurrencies' = cryptocurrencies
                   /\ error' # ""
                   /\ error' = (CASE last'.kind = "resp_other" -> MsgServerError(last'.data)
                                  [] last'.kind \in { "timeout", "network" } -> MsgNoResponse
                                  [] last'.kind = "setup" -> MsgSetup
                                  [] OTHER -> MsgUnexpected)
      ]_vars

\* C12 witness: a list request has failed with an error body that is no array;
\* the list stored by an earlier response is still there and the error is the
\* server-error message.
C12_Witness ==
    /\ mounted
    /\ last.op = "FetchFail"
    /\ last.kind = "resp_other"
    /\ cryptocurrencies # <<>>
    /\ error = MsgServerError(last.data)

----------------------------------------------------------------------------
(* Properties of the loading flag and of the error message *)

\* the list request of initializeApp is in flight
InitialFetchInFlight == \E i \in 1..Len(fetches) : fetches[i].origin = "init"

\* C13 as stated (SpecList): whenever the loading flag is true, the list request
\* of initializeApp is in flight.
C13_AsStated == isLoading => InitialFetchInFlight

\* C13 witness: the ping has failed, no list request was sent, and the loading
\* flag is true.
C13_Witness ==
    /\ mounted
    /\ last.op = "ProbeFail"
    /\ probe = "failed"
    /\ fetches = <<>>
    /\ isLoading

\* C14 as stated (SpecList): right after a list request settles with a
\* response, the error is empty and the loading flag is false.
C14_AsStated ==
    (mounted /\ last.op = "FetchOk") => (error = "" /\ ~isLoading)

\* C14 witness: a list request has settled with a response, and the error is
\* the message of another list request that failed while it was in flight.
C14_Witness ==
    /\ mounted
    /\ last.op = "FetchOk"
    /\ ~isLoading
    /\ error = MsgNoResponse

\* C15 as stated, for the search (SpecSearch): right after a search settles with
\* a response, the error is empty.
C15_AsStated ==
    (mounted /\ last.op = "SearchOk") => error = ""

\* C15 witness: a search has settled with a response and candidates, and the
\* error is the message of an earlier search that failed.
C15_Witness ==
    /\ mounted
    /\ last.op = "SearchOk"
    /\ searchResults # <<>>
    /\ error = MsgSearchFailed(MsgSearchUnknown)

----------------------------------------------------------------------------
(* Properties of overlapping list requests (SpecList) *)

\* C16: a list response is stored, default coins first, whatever the position
\* of its request among the list requests in flight, and the other list
\* requests stay in flight; so of two overlapping requests that both settle
\* with a response, the one that settles later leaves its body in the list,
\* whichever was sent first.
C16_LaterSettledWins ==
    [][ last'.op = "FetchOk" =>
          /\ last'.pos \in 1..Len(fetches)
          /\ fetches' = RemoveAt(fetches, last'.pos)
          /\ mounted' =>
                cryptocurrencies' = WithFlag(last'.body, TRUE) \o WithFlag(last'.body, FALSE)
      ]_vars

\* C16 witness: of two list requests in flight together the second was
\* answered first and the first was answered after it with another body; the
\* list holds the body that arrived later.
C16_Witness ==
    /\ mounted
    /\ last.op = "FetchOk"
    /\ last.prevOk # <<>>
    /\ last.prevOk[1].inFlight = 2 /\ last.prevOk[1].pos = 2
    /\ sortedCryptos(last.prevOk[1].body) # sortedCryptos(last.body)
    /\ cryptocurrencies = sortedCryptos(last.body)
    /\ fetches = <<>>

\* C17 as stated: when no list request is in flight and the list request sent
\* last was answered with a response, the stored list is the sorted body of
\* that response.  Stated for two overlapping requests answered one right
\* after the other, the one sent last first.
C17_AsStated ==
    (/\ mounted
     /\ last.op = "FetchOk"
     /\ fetches = <<>>
     /\ last.prevOk # <<>>
     /\ last.prevOk[1].inFlight = 2 /\ last.prevOk[1].pos = 2) =>
        cryptocurrencies = sortedCryptos(last.prevOk[1].body)

\* C17 witness: no list request is in flight, the request sent last was
\* answered with three coins, and the list holds the body of the request sent
\* before it, which was answered later.
C17_Witness ==
    /\ mounted
    /\ last.op = "FetchOk"
    /\ fetches = <<>>
    /\ last.prevOk # <<>>
    /\ last.prevOk[1].inFlight = 2 /\ last.prevOk[1].pos = 2
    /\ Len(last.prevOk[1].body) = 3
    /\ cryptocurrencies = sortedCryptos(last.body)
    /\ Len(cryptocurrencies) < 3

----------------------------------------------------------------------------
(* Properties of the re-fetch of an add (SpecAdd) and of the unmount (SpecList) *)

\* C18 as stated: right after the list request sent for an add has failed and
\* handleAddCrypto has finished, the error is the message of that failure.
C18_AsStated ==
    (mounted /\ last.op = "FetchFail" /\ last.origin = "add") =>
        (error # "" /\ error = fetchErrorMessage(last.kind, last.data))

\* C18 witness: the list request sent for an add has timed out, handleAddCrypto
\* has finished, and the error is empty.
C18_Witness ==
    /\ mounted
    /\ last.op = "FetchFail"
    /\ last.origin = "add"
    /\ last.kind = "timeout"
    /\ ~isLoading
    /\ error = ""

\* C20 as stated: once the view is unmounted, no step sends a list request.
C20_AsStated ==
    [][ ~mounted => Len(fetches') <= Len(fetches) ]_vars

\* C20 witness: the view was unmounted while the ping was in flight, the ping
\* has then answered with status 'ok', and the list request of initializeApp
\* is in flight.
C20_Witness ==
    /\ ~mounted
    /\ last.op = "ProbeOk"
    /\ probe = "ok"
    /\ fetches = <<[origin |-> "init"]>>

----------------------------------------------------------------------------
(* Properties of the candidates after a selection (SpecSelect) *)

\* C19 as stated: from the moment a selection has cleared the search text and
\* the candidate list until the next keystroke, the candidate list is empty.
C19_AsStated == hist.selected => searchResults = <<>>

\* C19 witness: a selection has cleared the search, no key was pressed since,
\* and the response of a search sent for an earlier keystroke has filled the
\* candidate list again under an empty search text.
C19_Witness ==
    /\ mounted
    /\ hist.selected
    /\ last.op = "SearchOk"
    /\ searchTerm = <<>>
    /\ searchResults # <<>>

====
